---- MODULE Spec2Model ----
(***************************************************************************)
(* Time-aware stacked-ensemble training (src/src/train_v4_models.py) and   *)
(* the tuning script (src/src/train_v4_tuned.py): its cross-validated      *)
(* scoring, its optuna studies and its main.                               *)
(*                                                                         *)
(* The history table train_df is a column of years (0 stands for a missing *)
(* year, NaN) and a column of labels home_won, indexed 0..n-1 (the parquet *)
(* files are written with index=False, so the loaded table has the default *)
(* RangeIndex and index labels are positions).  A fitted learner is        *)
(* abstracted to the set of rows of its most recent fit; a probability     *)
(* written into the out-of-fold matrix is abstracted to the number of the  *)
(* fold that produced it (0 stands for NaN, never written).  One numeric    *)
(* column stands for the feature columns; a parameter dict of a trial is   *)
(* one of a few names and a score one of a few levels.  Spec runs the fold *)
(* generators over every table of the bounds, SpecRuns both scripts from   *)
(* start to end on a few tables.                                           *)
(***************************************************************************)
EXTENDS Integers, Sequences, FiniteSets, TLC

\* ------------------------------------------------------------------ bounds
MaxYear == 5        \* distinct year values 1..MaxYear a table may hold
MaxPerYear == 2     \* rows per year value
MaxFeature == 2     \* a feature cell holds a value of 1..MaxFeature, or is missing
VaryRows == 3       \* leading rows of the feature column that vary; the rest are missing
NTrials == 2        \* n_trials of a study (25 and 20 in main)
MaxScore == 2       \* a cross-validated or holdout score is one of 1..MaxScore

\* ------------------------------------------------------- program constants
MinYears == 5       \* len(years) < 5 -> fall back
StartIndex == 3     \* start_index = 3
NSplits == 5        \* StratifiedKFold(n_splits=5, ...)
RandomState == 42   \* StratifiedKFold(..., shuffle=True, random_state=42)

NA == 0             \* a missing year (NaN)

VARIABLES
    program,        \* "stacked": V4StackedTrainer.run, "tuned": a cv_score_* call,
                    \* "main": main of the tuning script
    pc,             \* position in the program
    has_year,       \* "year" in train_df.columns
    year,           \* train_df["year"]: row -> year, NA when missing
    y,              \* y_train: row -> label
    base_models,    \* the dict of build_base_models, as its insertion order
    fitted,         \* name -> the most recent fit of that learner object
    folds,          \* the fold list of the current pass
    fold_mode,      \* "none", "time" or "stratified"
    fold_id,        \* position in the fold loop (1-based)
    model_pos,      \* position in the inner loop over base_models.items()
    oof_preds,      \* name -> row -> fold that wrote the cell, 0 for NaN
    writes,         \* name -> row -> number of assignments to the cell
    last_pred,      \* name -> rows predicted by the learner since its last fit
    meta_model,     \* the meta-learner: rows and column order it was fitted on
    meta_order,     \* the order train_meta_model returns
    val_matrix,     \* column order and base-learner fits behind the stacked input
    artifact,       \* the artifact dict; written is set once it has been dumped
    cv,             \* the cv_score_* call: metric, fresh model of the fold, scores
    train_df,       \* feature columns of the history parquet file: name -> row -> cell
    val_df,         \* feature columns of the holdout parquet file
    X_train,        \* the feature columns after fillna, << >> before the selection
    X_val,          \* the same for the holdout table
    fill_values,    \* the dict column -> fill value
    study,          \* the optuna study of the running tune_xgb / tune_lgbm call
    tuned,          \* locals of main: study number, best params, fitted models
    disk,           \* the artifact file: Unobserved until open(output_path, "wb")
    first_gen,      \* the first fold list generated by the run, None before
    rng_draws       \* permutations drawn so far by StratifiedKFold splitters

vars == << program, pc, has_year, year, y, base_models, fitted, folds, fold_mode,
           fold_id, model_pos, oof_preds, writes, last_pred, meta_model,
           meta_order, val_matrix, artifact, cv, train_df, val_df, X_train, X_val,
           fill_values, study, tuned, disk, first_gen, rng_draws >>

\* groups of variables that whole families of steps leave alone
data_vars == << train_df, val_df, X_train, X_val, fill_values >>
search_vars == << study, tuned >>

\* --------------------------------------------------------------- the table
Rows == DOMAIN year
NRows == Cardinality(Rows)

RECURSIVE PrefixCount(_, _)
PrefixCount(cnt, yr) == IF yr = 0 THEN 0 ELSE cnt[yr] + PrefixCount(cnt, yr - 1)

\* The table is in game_date order (games_df.sort_values('game_date')): the
\* years are non-decreasing, rows with no date last.  cnt gives the number of
\* rows of each year 1..Len(cnt); time_folds compares years and never
\* computes with them, so the distinct years are taken without gaps.
YearColumn(cnt, na) ==
    [i \in 0..(PrefixCount(cnt, Len(cnt)) + na - 1) |->
        IF i >= PrefixCount(cnt, Len(cnt)) THEN NA
        ELSE CHOOSE yr \in 1..Len(cnt) :
                PrefixCount(cnt, yr - 1) <= i /\ i < PrefixCount(cnt, yr)]

LabelSchemes == {"alt0", "alt1", "ones"}
LabelColumn(n, scheme) ==
    [i \in 0..(n - 1) |->
        CASE scheme = "alt0" -> i % 2
          [] scheme = "alt1" -> (i + 1) % 2
          [] OTHER -> 1]

Classes(rows) == {y[i] : i \in rows}

\* ------------------------------------------------------------ sorted(...)
RECURSIVE SortedSeq(_)
SortedSeq(S) ==
    IF S = {} THEN << >>
    ELSE LET m == CHOOSE x \in S : \A z \in S : x <= z
         IN << m >> \o SortedSeq(S \ {m})

\* mutant: the table keeps the labels of a frame sorted in descending order
df_index_reversed(p) == NRows - 1 - p

\* df.index: the label of the row at position p.  The two parquet files are
\* written with index=False, so read_parquet gives them the RangeIndex 0..n-1
df_index(p) == p

\* ------------------------------------------- V4StackedTrainer.time_folds
None == [none |-> TRUE, folds |-> << >>]
Some(fs) == [none |-> FALSE, folds |-> fs]

\* mutant: the rows without a year are not dropped, so that the missing year
\* counts as one more year
V4_years_keep_na == SortedSeq({year[i] : i \in Rows})

\* sorted(df["year"].dropna().unique())
V4_years == SortedSeq({year[i] : i \in Rows} \ {NA})

\* mutant: the slice starts one year early (years[start_index - 1:])
V4_fold_years_early(years) == SubSeq(years, StartIndex, Len(years))

\* fold_years = years[start_index:]
V4_fold_years(years) == SubSeq(years, StartIndex + 1, Len(years))

\* mutant: the training window includes the validation year (<= for <)
V4_train_idx_inclusive(fy) == {i \in Rows : year[i] # NA /\ year[i] <= fy}

\* mutant: a rolling window, the start_index years before the fold year
V4_train_idx_recent(fy) ==
    {i \in Rows : year[i] # NA /\ year[i] < fy /\ year[i] >= fy - StartIndex}

\* df.index[df["year"] < year]; a comparison with NaN is False
V4_train_idx(fy) == {df_index(p) : p \in {i \in Rows : year[i] # NA /\ year[i] < fy}}

\* mutant: the validation rows are the fold year and everything after it
V4_val_idx_from(fy) == {i \in Rows : year[i] # NA /\ year[i] >= fy}

\* df.index[df["year"] == year]
V4_val_idx(fy) == {df_index(p) : p \in {i \in Rows : year[i] # NA /\ year[i] = fy}}

RECURSIVE V4_fold_loop(_)
V4_fold_loop(fold_years) ==
    IF fold_years = << >> THEN << >>
    ELSE LET fy == Head(fold_years)
             train_idx == V4_train_idx(fy)
             val_idx == V4_val_idx(fy)
         IN (IF train_idx # {} /\ val_idx # {}
             THEN << [train |-> train_idx, val |-> val_idx, year |-> fy] >>
             ELSE << >>) \o V4_fold_loop(Tail(fold_years))

\* mutant: the threshold test is len(years) <= 5
V4_time_folds_le ==
    IF ~has_year THEN None
    ELSE IF Len(V4_years) <= MinYears THEN None
    ELSE Some(V4_fold_loop(V4_fold_years(V4_years)))

\* mutant: the loop runs over every year and appends every pair, with neither
\* start_index nor the test of the two lengths
V4_time_folds_unguarded ==
    IF ~has_year THEN None
    ELSE IF Len(V4_years) < MinYears THEN None
    ELSE Some([k \in 1..Len(V4_years) |->
                [train |-> V4_train_idx(V4_years[k]), val |-> V4_val_idx(V4_years[k]),
                 year |-> V4_years[k]]])

V4StackedTrainer_time_folds ==
    IF ~has_year THEN None
    ELSE IF Len(V4_years) < MinYears THEN None
    ELSE Some(V4_fold_loop(V4_fold_years(V4_years)))

\* ------------------------------------------- train_v4_tuned.time_folds
\* mutant: the rows without a year are not dropped, and the missing year sorts
\* first
tuned_years_keep_na == SortedSeq({year[i] : i \in Rows})

\* sorted(df["year"].dropna().unique())
tuned_years == SortedSeq({year[i] : i \in Rows} \ {NA})

\* mutant: the first validation year is skipped (years[start_index + 1:])
tuned_fold_years_skip(years) == SubSeq(years, StartIndex + 2, Len(years))

tuned_fold_years(years) == SubSeq(years, StartIndex + 1, Len(years))

\* mutant: a rolling window of start_index years instead of an expanding one
tuned_train_idx_window(fy) ==
    {i \in Rows : year[i] # NA /\ year[i] < fy /\ year[i] >= fy - StartIndex}

\* df.index[df["year"] < year]
tuned_train_idx(fy) == {df_index(p) : p \in {i \in Rows : year[i] # NA /\ year[i] < fy}}

\* df.index[df["year"] == year]
tuned_val_idx(fy) == {df_index(p) : p \in {i \in Rows : year[i] # NA /\ year[i] = fy}}

RECURSIVE tuned_fold_loop(_)
tuned_fold_loop(fold_years) ==
    IF fold_years = << >> THEN << >>
    ELSE LET fy == Head(fold_years)
             train_idx == tuned_train_idx(fy)
             val_idx == tuned_val_idx(fy)
         IN (IF train_idx # {} /\ val_idx # {}
             THEN << [train |-> train_idx, val |-> val_idx] >>
             ELSE << >>) \o tuned_fold_loop(Tail(fold_years))

time_folds ==
    IF ~has_year THEN None
    ELSE IF Len(tuned_years) < MinYears THEN None
    ELSE Some(tuned_fold_loop(tuned_fold_years(tuned_years)))

\* ------------------- StratifiedKFold(n_splits=5, shuffle=True, random_state=42)
\* Classes are encoded in order of first appearance; the rows of a class, in
\* row order, receive that class's fold numbers after the shuffle.
ClassRows(k) == {i \in Rows : y[i] = k}
RankInClass(i) == Cardinality({j \in ClassRows(y[i]) : j < i})
FirstClass == y[0]
\* position in y sorted by encoded class of the r-th row of class k
OrderPos(k, r) == IF k = FirstClass THEN r ELSE Cardinality(ClassRows(FirstClass)) + r
\* allocation: fold f takes the positions f, f + n_splits, ... of the sorted labels
Allocation(f, k) ==
    Cardinality({r \in 0..(Cardinality(ClassRows(k)) - 1) : OrderPos(k, r) % NSplits = f})
RECURSIVE AllocBefore(_, _)
AllocBefore(f, k) == IF f = 0 THEN 0 ELSE Allocation(f - 1, k) + AllocBefore(f - 1, k)
\* np.arange(n_splits).repeat(allocation[:, k]) at position r
FoldsForClass(k, r) ==
    CHOOSE f \in 0..(NSplits - 1) : AllocBefore(f, k) <= r /\ r < AllocBefore(f + 1, k)
\* rng.shuffle(folds_for_class): a fixed permutation for a fixed seed and length
\* mutant: random_state=None, the splitter draws from the shared numpy generator,
\* whose stream has moved on by the permutations drawn before
shuffle_seed_shared == RandomState + rng_draws

\* random_state=42: every split() call seeds a generator of its own
shuffle_seed == RandomState

Shuffled(k, r) == FoldsForClass(k, (r + shuffle_seed) % Cardinality(ClassRows(k)))
TestFold(i) == Shuffled(y[i], RankInClass(i))

SplitRaises ==
    \/ NRows < NSplits
    \/ \A k \in Classes(Rows) : Cardinality(ClassRows(k)) < NSplits

\* test_folds[y_encoded == k] = folds_for_class (the fold of every row is
\* computed once, as the array is)
test_folds ==
    LET assigned == {<< i, TestFold(i) >> : i \in Rows}
    IN [i \in Rows |-> CHOOSE f \in 0..(NSplits - 1) : << i, f >> \in assigned]

StratifiedTest(tfs, f) == {i \in Rows : tfs[i] = f}
StratifiedTrain(tfs, f) == {i \in Rows : tfs[i] # f}

\* [(train_idx, val_idx, None) for train_idx, val_idx in skf.split(X, y)]
V4_stratified_folds ==
    LET tfs == test_folds IN
    [f \in 1..NSplits |->
        [train |-> StratifiedTrain(tfs, f - 1), val |-> StratifiedTest(tfs, f - 1),
         year |-> NA]]

\* [(tr, va) for tr, va in skf.split(X, y)]
tuned_stratified_folds ==
    LET tfs == test_folds IN
    [f \in 1..NSplits |->
        [train |-> StratifiedTrain(tfs, f - 1), val |-> StratifiedTest(tfs, f - 1)]]

\* ------------------------------------------------------ the base learners
\* build_base_models returns {"lr": ..., "xgb": ..., "lgbm": ...}
build_base_models == << "lr", "xgb", "lgbm" >>
Names == {build_base_models[i] : i \in DOMAIN build_base_models}

\* Python's string order on the three keys: "lgbm" < "lr" < "xgb"
NameRank(n) == CASE n = "lgbm" -> 1 [] n = "lr" -> 2 [] n = "xgb" -> 3

RECURSIVE SortedNames(_)
SortedNames(S) ==
    IF S = {} THEN << >>
    ELSE LET m == CHOOSE x \in S : \A z \in S : NameRank(x) <= NameRank(z)
         IN << m >> \o SortedNames(S \ {m})

Unfit == [kind |-> "unfit", rows |-> {}]
FoldFit(rows) == [kind |-> "fold", rows |-> rows]
FullFit == [kind |-> "full", rows |-> Rows]

\* LogisticRegression / XGBClassifier.fit on labels of a single class raise
FitRaises(rows) == Cardinality(Classes(rows)) < 2
\* roc_auc_score: "Only one class present in y_true"
AucRaises(rows) == Cardinality(Classes(rows)) < 2

NoMeta == [fitted |-> FALSE, rows |-> {}, order |-> << >>]
NoMatrix == [built |-> FALSE, order |-> << >>, fits |-> [n \in Names |-> Unfit]]
NoArtifact == [written |-> FALSE]
NoCv == [metric |-> "none", params |-> "none", instances |-> 0, model |-> Unfit,
         pred |-> {}, scores |-> 0,
         value |-> 0]

\* ----------------------------------------------------- the feature columns
\* feature_cols: the numeric columns of train_df outside exclude_cols (the
\* model's train_df holds no other column)
FeatureCols == DOMAIN train_df

\* a cell is missing (NA) or holds twice a value of 1..MaxFeature, so that the
\* mean of two cells is an integer
Cells == {NA} \cup {2 * v : v \in 1..MaxFeature}

CountBelow(col, m) == Cardinality({i \in DOMAIN col : col[i] # NA /\ col[i] < m})
CountAtMost(col, m) == Cardinality({i \in DOMAIN col : col[i] # NA /\ col[i] <= m})
CountPresent(col) == Cardinality({i \in DOMAIN col : col[i] # NA})

\* the k-th smallest of the cells present (1-based)
KthSmallest(col, k) ==
    CHOOSE v \in Cells \ {NA} : CountAtMost(col, v) >= k /\ CountBelow(col, v) < k

\* Series.median(): missing cells are skipped; the middle cell, or the mean of
\* the two middle cells; NaN for a column without a present cell
median(col) ==
    LET n == CountPresent(col) IN
    IF n = 0 THEN NA
    ELSE IF n % 2 = 1 THEN KthSmallest(col, (n + 1) \div 2)
    ELSE (KthSmallest(col, n \div 2) + KthSmallest(col, n \div 2 + 1)) \div 2

\* Series.fillna(fill_val)
fillna(col, fill_val) == [i \in DOMAIN col |-> IF col[i] = NA THEN fill_val ELSE col[i]]

\* the rows of train_df followed by the rows of val_df, as one column
Pooled(c) ==
    LET n == Cardinality(DOMAIN train_df[c]) IN
    [i \in 0..(n + Cardinality(DOMAIN val_df[c]) - 1) |->
        IF i < n THEN train_df[c][i] ELSE val_df[c][i - n]]

\* mutant: the median is taken over the history and the holdout rows together
fill_val_pooled(c) == median(Pooled(c))

\* fill_val = train_df[col].median()
fill_val(c) == median(train_df[c])

\* X = train_df[feature_cols] of an empty feature_cols: a matrix of shape (n, 0).
\* StandardScaler.fit and LGBMClassifier.fit validate X and raise "Found array
\* with 0 feature(s)"
NoFeatures(X) == DOMAIN X = {}

\* LogisticRegression.fit: "Input X contains NaN"
HasMissing(X) == \E c \in DOMAIN X : \E i \in DOMAIN X[c] : X[c][i] = NA

\* the holdout table is read as a single row
ValRows == {0}

\* feature columns of n rows: the leading VaryRows cells vary, the rest are missing
FeatureColumns(n) ==
    {[i \in 0..(n - 1) |-> IF i < VaryRows THEN p[i] ELSE NA] :
        p \in [0..(VaryRows - 1) -> Cells]}

\* a column without a missing cell
DenseColumn(n) == [i \in 0..(n - 1) |-> 2]

\* a column whose present cells are 2 and 4, every other cell missing
SparseColumn(n) == [i \in 0..(n - 1) |-> IF i \in {1, 2} THEN 2 * i ELSE NA]

\* ------------------------------------------------------------- the tuner
\* the parameter dicts a trial can be given (trial.suggest_*), abstracted
Configs == {"params_a", "params_b"}

\* the artifact path before the run has opened it
Unobserved == [prior |-> FALSE, content |-> "unobserved"]

NoStudy == [active |-> FALSE]
NoTuned == [k |-> 0, best |-> << >>, fits |-> << >>, holdout |-> << >>]

\* main calls tune_xgb, tune_lgbm (metric="auc"), then tune_xgb, tune_lgbm
\* (metric="accuracy")
StudyFamily(k) == IF k % 2 = 1 THEN "xgb" ELSE "lgbm"
StudyMetric(k) == IF k <= 2 THEN "auc" ELSE "accuracy"

\* ------------------------------------------------------------------- Init
Tables ==
    {[has |-> TRUE, col |-> YearColumn(cnt, na)] :
        cnt \in UNION {[1..k -> 1..MaxPerYear] : k \in 0..MaxYear}, na \in 0..1}
    \cup {[has |-> FALSE, col |-> [i \in 0..(n - 1) |-> NA]] :
        n \in 0..(MaxYear * MaxPerYear + 1)}

\* everything but the input tables and the program
InitRest ==
    /\ pc = "load"
    /\ base_models = << >>
    /\ fitted = [n \in Names |-> Unfit]
    /\ folds = << >>
    /\ fold_mode = "none"
    /\ fold_id = 0
    /\ model_pos = 0
    /\ oof_preds = [n \in {} |-> 0]
    /\ writes = [n \in Names |-> [i \in DOMAIN year |-> 0]]
    /\ last_pred = [n \in Names |-> {}]
    /\ meta_model = NoMeta
    /\ meta_order = << >>
    /\ val_matrix = NoMatrix
    /\ artifact = NoArtifact
    /\ cv = NoCv
    /\ X_train = << >>
    /\ X_val = << >>
    /\ fill_values = << >>
    /\ study = NoStudy
    /\ tuned = NoTuned
    /\ disk = Unobserved
    /\ first_gen = None
    /\ rng_draws = 0

\* the fold generators over every table of the bounds, on a dense feature column
Init ==
    /\ program \in {"stacked", "tuned"}
    /\ \E t \in Tables, scheme \in LabelSchemes :
        /\ has_year = t.has
        /\ year = t.col
        /\ y = LabelColumn(Cardinality(DOMAIN t.col), scheme)
        /\ train_df = [c \in {"f"} |-> DenseColumn(Cardinality(DOMAIN t.col))]
    /\ val_df = [c \in {"f"} |-> [i \in ValRows |-> 2]]
    /\ InitRest

\* the tables of the full runs: five years with two rows in each of the last
\* two; five years of one row; ten rows without a year column; three rows
\* without a year column
RunTable == [has |-> TRUE, col |-> YearColumn(<< 1, 1, 1, 2, 2 >>, 0)]
ThinTable == [has |-> TRUE, col |-> YearColumn(<< 1, 1, 1, 1, 1 >>, 0)]
FlatTable == [has |-> FALSE, col |-> [i \in 0..9 |-> NA]]
TinyTable == [has |-> FALSE, col |-> [i \in 0..2 |-> NA]]

\* the inputs of the full runs: every feature column on RunTable for the
\* stacking run and the cv_score call, the sparse column elsewhere and for main;
\* and RunTable without a numeric column outside exclude_cols
RunInputs ==
    {[program |-> prog, table |-> RunTable, cols |-> {}, train |-> << >>, val |-> NA] :
        prog \in {"stacked", "tuned"}}
    \cup
    {[program |-> prog, table |-> RunTable, cols |-> {"f"}, train |-> col, val |-> v] :
        prog \in {"stacked", "tuned"},
        col \in FeatureColumns(Cardinality(DOMAIN RunTable.col)),
        v \in Cells}
    \cup {[program |-> prog, table |-> t, cols |-> {"f"},
           train |-> SparseColumn(Cardinality(DOMAIN t.col)), val |-> v] :
        prog \in {"stacked", "tuned", "main"},
        t \in {ThinTable, FlatTable, TinyTable},
        v \in {NA}}
    \cup {[program |-> "main", table |-> RunTable, cols |-> {"f"},
           train |-> SparseColumn(Cardinality(DOMAIN RunTable.col)), val |-> v] :
        v \in {NA, 2 * MaxFeature}}

InitRuns ==
    /\ \E inp \in RunInputs :
        /\ program = inp.program
        /\ has_year = inp.table.has
        /\ year = inp.table.col
        /\ y = LabelColumn(Cardinality(DOMAIN inp.table.col), "alt0")
        /\ train_df = [c \in inp.cols |-> inp.train]
        /\ val_df = [c \in inp.cols |-> [i \in ValRows |-> inp.val]]
    /\ InitRest

\* ------------------------------------------------ V4StackedTrainer.run
\* the first fold list of the run is kept for comparison with later ones
Remember(mode, fs) ==
    IF first_gen.none THEN [none |-> FALSE, mode |-> mode, folds |-> fs] ELSE first_gen

\* load_data and select_features: the tables are read, the fill value of every
\* feature column is computed and both tables are filled, X and y extracted
load_data ==
    /\ program = "stacked" /\ pc = "load"
    /\ fill_values' = [c \in FeatureCols |-> fill_val(c)]
    /\ X_train' = [c \in FeatureCols |-> fillna(train_df[c], fill_val(c))]
    /\ X_val' = [c \in FeatureCols |-> fillna(val_df[c], fill_val(c))]
    /\ pc' = "build"
    /\ UNCHANGED << program, has_year, year, y, base_models, fitted, folds, fold_mode,
                    fold_id, model_pos, oof_preds, writes, last_pred, meta_model,
                    meta_order, val_matrix, artifact, cv, train_df, val_df,
                    search_vars, disk, first_gen, rng_draws >>

run_build_base_models ==
    /\ program = "stacked" /\ pc = "build"
    /\ base_models' = build_base_models
    /\ pc' = "oof_folds"
    /\ UNCHANGED << program, has_year, year, y, fitted, folds, fold_mode,
                    fold_id, model_pos, oof_preds, writes, last_pred, meta_model,
                    meta_order, val_matrix, artifact, cv, data_vars, search_vars,
                    disk, first_gen, rng_draws >>

\* get_oof_predictions, up to the fold loop: the NaN matrix and the fold list
get_oof_predictions_folds ==
    /\ program = "stacked" /\ pc = "oof_folds"
    /\ oof_preds' = [n \in Names |-> [i \in Rows |-> 0]]
    /\ LET tf == V4StackedTrainer_time_folds IN
        IF ~tf.none
        THEN /\ folds' = tf.folds
             /\ fold_mode' = "time"
             /\ first_gen' = Remember("time", tf.folds)
             /\ fold_id' = 1 /\ model_pos' = 1
             /\ pc' = IF tf.folds = << >> THEN "meta" ELSE "oof_loop"
             /\ UNCHANGED rng_draws
        ELSE IF SplitRaises
        THEN /\ pc' = "raised_split"
             /\ UNCHANGED << folds, fold_mode, fold_id, model_pos, first_gen, rng_draws >>
        ELSE /\ folds' = V4_stratified_folds
             /\ fold_mode' = "stratified"
             /\ first_gen' = Remember("stratified", folds')
             /\ rng_draws' = rng_draws + 1
             /\ fold_id' = 1 /\ model_pos' = 1
             /\ pc' = "oof_loop"
    /\ UNCHANGED << program, has_year, year, y, base_models, fitted, writes,
                    last_pred, meta_model, meta_order, val_matrix, artifact, cv,
                    data_vars, search_vars, disk >>

\* mutant: the learner is fitted on the whole of X, y inside the fold loop
fit_rows_all(fold) == Rows

\* X_tr, y_tr = X[train_idx], y[train_idx]: the rows model.fit receives
fit_rows(fold) == fold.train

\* X_va = X[val_idx]: the rows predict_proba receives and whose cells are written
predict_rows(fold) == fold.val

\* one pass of the inner loop: fit, predict_proba, write the cells, score
get_oof_predictions_step ==
    /\ program = "stacked" /\ pc = "oof_loop"
    /\ LET name == base_models[model_pos]
           train_idx == fit_rows(folds[fold_id])
           val_idx == predict_rows(folds[fold_id])
       IN IF \/ FitRaises(train_idx)
             \/ name = "lr" /\ (HasMissing(X_train) \/ NoFeatures(X_train))
          THEN /\ pc' = "raised_oof_fit"
               /\ UNCHANGED << fitted, last_pred, oof_preds, writes, fold_id, model_pos >>
          ELSE /\ fitted' = [fitted EXCEPT ![name] = FoldFit(train_idx)]
               /\ last_pred' = [last_pred EXCEPT ![name] = val_idx]
               /\ oof_preds' = [oof_preds EXCEPT ![name] =
                                   [i \in Rows |-> IF i \in val_idx THEN fold_id ELSE @[i]]]
               /\ writes' = [writes EXCEPT ![name] =
                                   [i \in Rows |-> IF i \in val_idx THEN @[i] + 1 ELSE @[i]]]
               /\ IF AucRaises(val_idx)
                  THEN pc' = "raised_oof_auc" /\ UNCHANGED << fold_id, model_pos >>
                  ELSE IF model_pos < Len(base_models)
                  THEN pc' = pc /\ model_pos' = model_pos + 1 /\ fold_id' = fold_id
                  ELSE IF fold_id < Len(folds)
                  THEN pc' = pc /\ model_pos' = 1 /\ fold_id' = fold_id + 1
                  ELSE pc' = "meta" /\ UNCHANGED << fold_id, model_pos >>
    /\ UNCHANGED << program, has_year, year, y, base_models, folds, fold_mode,
                    meta_model, meta_order, val_matrix, artifact, cv, data_vars,
                    search_vars, disk, first_gen, rng_draws >>

\* ------------------------------------------------------- train_meta_model
\* [oof_preds[name] for name in sorted(oof_preds.keys())]
oof_matrix_columns == SortedNames(DOMAIN oof_preds)

\* mutant: the NaN mask is dropped and every row is kept
valid_rows_all == Rows

\* valid_rows = ~np.isnan(oof_matrix).any(axis=1)
valid_rows == {i \in Rows : ~(\E n \in DOMAIN oof_preds : oof_preds[n][i] = 0)}

\* mutant: the keys are returned in dictionary order (list(oof_preds.keys()))
returned_meta_order_unsorted == base_models

\* return meta, sorted(oof_preds.keys())
returned_meta_order == SortedNames(DOMAIN oof_preds)

train_meta_model ==
    /\ program = "stacked" /\ pc = "meta"
    /\ IF FitRaises(valid_rows)
       THEN pc' = "raised_meta_fit" /\ UNCHANGED << meta_model, meta_order, model_pos >>
       ELSE /\ meta_model' = [fitted |-> TRUE, rows |-> valid_rows,
                              order |-> oof_matrix_columns]
            /\ meta_order' = returned_meta_order
            /\ model_pos' = 1
            /\ pc' = "fit_full"
    /\ UNCHANGED << program, has_year, year, y, base_models, fitted, folds, fold_mode,
                    fold_id, oof_preds, writes, last_pred, val_matrix, artifact, cv,
                    data_vars, search_vars, disk, first_gen, rng_draws >>

\* mutant: the refit on the full history is missing
refit_skipped(name) == fitted[name]

\* model.fit(X_train, y_train): the state of the learner after the refit
refit(name) == FullFit

\* mutant: the run goes from the refit straight to the artifact
after_full_fit_package == "package"

\* where run continues after the refit: the evaluation on the holdout table
after_full_fit == "evaluate"

\* for model in base_models.values(): model.fit(X_train, y_train)
run_fit_full ==
    /\ program = "stacked" /\ pc = "fit_full"
    /\ LET name == base_models[model_pos] IN
        IF FitRaises(Rows)
        THEN pc' = "raised_full_fit" /\ UNCHANGED << fitted, last_pred, model_pos >>
        ELSE /\ fitted' = [fitted EXCEPT ![name] = refit(name)]
             /\ last_pred' = [last_pred EXCEPT ![name] = {}]
             /\ IF model_pos < Len(base_models)
                THEN pc' = pc /\ model_pos' = model_pos + 1
                ELSE pc' = after_full_fit /\ model_pos' = 1
    /\ UNCHANGED << program, has_year, year, y, base_models, folds, fold_mode, fold_id,
                    oof_preds, writes, meta_model, meta_order, val_matrix, artifact, cv,
                    data_vars, search_vars, disk, first_gen, rng_draws >>

\* mutant: the fitted models are dumped to the artifact file before they are
\* evaluated on the holdout table
evaluate_single_model_checkpointing ==
    /\ program = "stacked" /\ pc = "evaluate"
    /\ \E y_val_two_classes \in BOOLEAN :
        IF model_pos = 1 /\ ~y_val_two_classes
        THEN pc' = "raised_holdout_auc" /\ UNCHANGED model_pos
        ELSE IF model_pos < Len(base_models)
        THEN pc' = pc /\ model_pos' = model_pos + 1
        ELSE pc' = "stacked_eval" /\ UNCHANGED model_pos
    /\ disk' = [prior |-> FALSE, content |-> "new"]
    /\ UNCHANGED << program, has_year, year, y, base_models, fitted, folds, fold_mode,
                    fold_id, oof_preds, writes, last_pred, meta_model, meta_order,
                    val_matrix, artifact, cv, data_vars, search_vars,
                    first_gen, rng_draws >>

\* evaluate_single_model on the holdout table; roc_auc_score raises when y_val
\* holds one class only, which the first evaluation finds out
evaluate_single_model ==
    /\ program = "stacked" /\ pc = "evaluate"
    /\ \E y_val_two_classes \in BOOLEAN :
        IF model_pos = 1 /\ ~y_val_two_classes
        THEN pc' = "raised_holdout_auc" /\ UNCHANGED model_pos
        ELSE IF model_pos < Len(base_models)
        THEN pc' = pc /\ model_pos' = model_pos + 1
        ELSE pc' = "stacked_eval" /\ UNCHANGED model_pos
    /\ UNCHANGED << program, has_year, year, y, base_models, fitted, folds, fold_mode,
                    fold_id, oof_preds, writes, last_pred, meta_model, meta_order,
                    val_matrix, artifact, cv, data_vars, search_vars, disk,
                    first_gen, rng_draws >>

\* val_matrix = column_stack([base_models[name].predict_proba(X_val) for name in meta_order])
stacked_evaluation ==
    /\ program = "stacked" /\ pc = "stacked_eval"
    /\ val_matrix' = [built |-> TRUE, order |-> meta_order,
                      fits |-> [n \in Names |-> fitted[n]]]
    /\ pc' = "package"
    /\ UNCHANGED << program, has_year, year, y, base_models, fitted, folds, fold_mode,
                    fold_id, model_pos, oof_preds, writes, last_pred, meta_model,
                    meta_order, artifact, cv, data_vars, search_vars, disk,
                    first_gen, rng_draws >>

\* with open(output_path, "wb") as f: pickle.dump(..., f).  Mode "wb" creates
\* the file or truncates the one that is there; whether one was there is
\* found out here, the program not having touched the path before
open_wb(prior) == [prior |-> prior, content |-> "new"]

\* model_artifact = {...}; pickle.dump(model_artifact, f)
save_artifact ==
    /\ program = "stacked" /\ pc = "package"
    /\ artifact' = [written |-> TRUE,
                    base_models |-> [n \in Names |-> fitted[n]],
                    meta_model |-> meta_model,
                    meta_order |-> meta_order,
                    feature_cols |-> DOMAIN X_train,
                    fill_values |-> fill_values,
                    metrics |-> val_matrix.built]
    /\ \E prior \in BOOLEAN : disk' = open_wb(prior)
    /\ pc' = "done"
    /\ UNCHANGED << program, has_year, year, y, base_models, fitted, folds, fold_mode,
                    fold_id, model_pos, oof_preds, writes, last_pred, meta_model,
                    meta_order, val_matrix, cv, data_vars, search_vars,
                    first_gen, rng_draws >>

\* ------------------------------------- cv_score_auc / cv_score_accuracy
\* prepare_data of the tuning script: the same selection and fill as above
prepare_data ==
    /\ program \in {"tuned", "main"} /\ pc = "load"
    /\ fill_values' = [c \in FeatureCols |-> fill_val(c)]
    /\ X_train' = [c \in FeatureCols |-> fillna(train_df[c], fill_val(c))]
    /\ X_val' = [c \in FeatureCols |-> fillna(val_df[c], fill_val(c))]
    /\ pc' = IF program = "main" THEN "tune" ELSE "cv_folds"
    /\ UNCHANGED << program, has_year, year, y, base_models, fitted, folds, fold_mode,
                    fold_id, model_pos, oof_preds, writes, last_pred, meta_model,
                    meta_order, val_matrix, artifact, cv, train_df, val_df,
                    search_vars, disk, first_gen, rng_draws >>

\* folds = time_folds(train_df); if folds is None: StratifiedKFold(...)
\* inside a study the metric is the study's, cv_score_accuracy or cv_score_auc
cv_score_folds ==
    /\ program \in {"tuned", "main"} /\ pc = "cv_folds"
    /\ \E metric \in {"auc", "accuracy"} :
        /\ program = "main" => metric = study.metric
        /\ cv' = [NoCv EXCEPT !.metric = metric,
                               !.params = IF program = "main" THEN study.params ELSE "none"]
    /\ LET tf == time_folds IN
        IF ~tf.none
        THEN /\ folds' = tf.folds
             /\ fold_mode' = "time"
             /\ first_gen' = Remember("time", tf.folds)
             /\ fold_id' = 1
             /\ pc' = IF tf.folds = << >> THEN "cv_mean" ELSE "cv_loop"
             /\ UNCHANGED rng_draws
        ELSE IF SplitRaises
        THEN pc' = "raised_split" /\ UNCHANGED << folds, fold_mode, fold_id, first_gen,
                                                  rng_draws >>
        ELSE /\ folds' = tuned_stratified_folds
             /\ fold_mode' = "stratified"
             /\ first_gen' = Remember("stratified", folds')
             /\ rng_draws' = rng_draws + 1
             /\ fold_id' = 1
             /\ pc' = "cv_loop"
    /\ UNCHANGED << program, has_year, year, y, base_models, fitted, model_pos,
                    oof_preds, writes, last_pred, meta_model, meta_order,
                    val_matrix, artifact, data_vars, search_vars, disk >>

\* model.fit(X[train_idx], y[train_idx])
cv_fit_rows(fold) == fold.train

\* model.predict_proba(X[val_idx]) / model.predict(X[val_idx])
cv_predict_rows(fold) == fold.val

\* mutant: one model is built before the loop and fitted again in every fold
model_builder_once(built) == IF built = 0 THEN 1 ELSE built

\* model = model_builder(): one more instance than were built so far, made by
\* the lambda of the objective from the parameters of its trial (cv.params)
model_builder(built) == built + 1

\* model = model_builder(); model.fit(...); predict; append the fold's score.
\* On a matrix without a column LGBMClassifier.fit raises, and XGBClassifier.fit
\* builds a DMatrix of zero columns, which its library accepts or rejects by
\* version: either outcome
cv_score_step ==
    /\ program \in {"tuned", "main"} /\ pc = "cv_loop"
    /\ \E rejected \in {b \in BOOLEAN : b => NoFeatures(X_train)} :
       LET train_idx == cv_fit_rows(folds[fold_id])
           val_idx == cv_predict_rows(folds[fold_id])
       IN IF FitRaises(train_idx) \/ rejected
          THEN pc' = "raised_cv_fit" /\ cv' = [cv EXCEPT !.instances = model_builder(@), !.model = Unfit,
                                                  !.pred = {}]
               /\ UNCHANGED fold_id
          ELSE IF cv.metric = "auc" /\ AucRaises(val_idx)
          THEN pc' = "raised_cv_auc" /\ cv' = [cv EXCEPT !.instances = model_builder(@),
                                                  !.model = FoldFit(train_idx),
                                                  !.pred = val_idx]
               /\ UNCHANGED fold_id
          ELSE /\ cv' = [cv EXCEPT !.instances = model_builder(@), !.model = FoldFit(train_idx),
                                   !.pred = val_idx, !.scores = @ + 1]
               /\ IF fold_id < Len(folds)
                  THEN pc' = pc /\ fold_id' = fold_id + 1
                  ELSE pc' = "cv_mean" /\ UNCHANGED fold_id
    /\ UNCHANGED << program, has_year, year, y, base_models, fitted, folds, fold_mode,
                    model_pos, oof_preds, writes, last_pred, meta_model, meta_order,
                    val_matrix, artifact, data_vars, search_vars, disk, first_gen,
                    rng_draws >>

\* the scores a parameter dict can get: the objective is a function of the
\* parameters and the data, so a dict scored before gets the same score again
ScoresOf(params) ==
    IF \E t \in DOMAIN study.trials : study.trials[t].params = params
    THEN {study.trials[t].value : t \in {u \in DOMAIN study.trials :
                                            study.trials[u].params = params}}
    ELSE 1..MaxScore

\* return float(np.mean(aucs)); inside a study the value goes to the objective
cv_score_return ==
    /\ program \in {"tuned", "main"} /\ pc = "cv_mean"
    /\ IF program = "main"
       THEN /\ \E s \in ScoresOf(study.params) : cv' = [cv EXCEPT !.value = s]
            /\ pc' = "tell"
       ELSE pc' = "done" /\ UNCHANGED cv
    /\ UNCHANGED << program, has_year, year, y, base_models, fitted, folds, fold_mode,
                    fold_id, model_pos, oof_preds, writes, last_pred, meta_model,
                    meta_order, val_matrix, artifact, data_vars, search_vars, disk,
                    first_gen, rng_draws >>

Next ==
    \/ load_data
    \/ run_build_base_models
    \/ get_oof_predictions_folds
    \/ get_oof_predictions_step
    \/ train_meta_model
    \/ run_fit_full
    \/ evaluate_single_model
    \/ stacked_evaluation
    \/ save_artifact
    \/ prepare_data
    \/ cv_score_folds
    \/ cv_score_step
    \/ cv_score_return

Spec == Init /\ [][Next]_vars

\* ------------------------------------------------- tune_xgb / tune_lgbm
\* study = optuna.create_study(direction="maximize")
create_study ==
    /\ program = "main" /\ pc = "tune"
    /\ tuned' = [tuned EXCEPT !.k = @ + 1]
    /\ study' = [active |-> TRUE, family |-> StudyFamily(tuned.k + 1),
                 metric |-> StudyMetric(tuned.k + 1), params |-> "none",
                 trials |-> << >>, best |-> 0]
    /\ pc' = "ask"
    /\ UNCHANGED << program, has_year, year, y, base_models, fitted, folds, fold_mode,
                    fold_id, model_pos, oof_preds, writes, last_pred, meta_model,
                    meta_order, val_matrix, artifact, cv, data_vars, disk, first_gen,
                    rng_draws >>

\* a trial starts: the sampler of the study hands the objective its parameters.
\* create_study is given no sampler, so the default TPESampler(seed=None)
\* draws them from a generator seeded by the operating system
study_ask(params) ==
    /\ program = "main" /\ pc = "ask"
    /\ study' = [study EXCEPT !.params = params]
    /\ pc' = "cv_folds"
    /\ UNCHANGED << program, has_year, year, y, base_models, fitted, folds, fold_mode,
                    fold_id, model_pos, oof_preds, writes, last_pred, meta_model,
                    meta_order, val_matrix, artifact, cv, data_vars, tuned, disk,
                    first_gen, rng_draws >>

RECURSIVE MaxValue(_)
MaxValue(trials) ==
    IF Len(trials) = 1 THEN trials[1].value
    ELSE LET m == MaxValue(SubSeq(trials, 1, Len(trials) - 1))
         IN IF trials[Len(trials)].value > m THEN trials[Len(trials)].value ELSE m

\* mutant: the study keeps the trial that completed last
best_trial_latest(trials) == Len(trials)

\* study.best_trial: the completed trial of the greatest value, the earliest
\* of them (the study replaces its best trial on a strictly greater value)
best_trial(trials) ==
    CHOOSE t \in DOMAIN trials :
        /\ trials[t].value = MaxValue(trials)
        /\ \A u \in DOMAIN trials : trials[u].value = MaxValue(trials) => t <= u

\* the objective returns: the study records the trial and its best trial
study_tell ==
    /\ program = "main" /\ pc = "tell"
    /\ LET done == Append(study.trials, [params |-> study.params, value |-> cv.value])
       IN /\ study' = [study EXCEPT !.trials = done, !.best = best_trial(done),
                                    !.params = "none"]
          /\ pc' = IF Len(done) < NTrials THEN "ask" ELSE "best"
    /\ UNCHANGED << program, has_year, year, y, base_models, fitted, folds, fold_mode,
                    fold_id, model_pos, oof_preds, writes, last_pred, meta_model,
                    meta_order, val_matrix, artifact, cv, data_vars, tuned, disk,
                    first_gen, rng_draws >>

\* return study.best_params, back in main
tune_return ==
    /\ program = "main" /\ pc = "best"
    /\ tuned' = [tuned EXCEPT !.best = Append(@, study.trials[study.best].params)]
    /\ study' = NoStudy
    /\ pc' = IF tuned.k % 2 = 1 THEN "tune" ELSE "fit_tuned"
    /\ UNCHANGED << program, has_year, year, y, base_models, fitted, folds, fold_mode,
                    fold_id, model_pos, oof_preds, writes, last_pred, meta_model,
                    meta_order, val_matrix, artifact, cv, data_vars, disk, first_gen,
                    rng_draws >>

\* ------------------------------------------------------------------ main
\* xgb_model.fit(X_train, y_train); lgbm_model.fit(X_train, y_train), with the
\* parameters of the two studies just finished
main_fit_models ==
    /\ program = "main" /\ pc = "fit_tuned"
    /\ IF FitRaises(Rows)
       THEN pc' = "raised_full_fit" /\ UNCHANGED tuned
       ELSE /\ tuned' = [tuned EXCEPT !.fits = @ \o
                            << [family |-> "xgb", params |-> tuned.best[tuned.k - 1],
                                fit |-> FullFit],
                               [family |-> "lgbm", params |-> tuned.best[tuned.k],
                                fit |-> FullFit] >>]
            /\ pc' = "holdout"
    /\ UNCHANGED << program, has_year, year, y, base_models, fitted, folds, fold_mode,
                    fold_id, model_pos, oof_preds, writes, last_pred, meta_model,
                    meta_order, val_matrix, artifact, cv, data_vars, study, disk,
                    first_gen, rng_draws >>

\* mutant: a tie of the two AUCs goes to LightGBM
best_model_strict(xgb_auc, lgbm_auc) == IF xgb_auc > lgbm_auc THEN 1 ELSE 2

\* best_model = ("xgb", ...) if xgb_auc >= lgbm_auc else ("lgbm", ...)
best_model(xgb_auc, lgbm_auc) == IF xgb_auc >= lgbm_auc THEN 1 ELSE 2

\* evaluate_on_holdout of the two AUC-tuned models, the choice of best_model
\* and the artifact dict.  The two AUCs are what the holdout table makes them
main_evaluate_primary ==
    /\ program = "main" /\ pc = "holdout" /\ tuned.k = 2
    /\ \E y_val_two_classes \in BOOLEAN, xgb_auc \in 1..MaxScore, lgbm_auc \in 1..MaxScore :
        IF ~y_val_two_classes
        THEN pc' = "raised_holdout_auc" /\ UNCHANGED << artifact, tuned >>
        ELSE /\ tuned' = [tuned EXCEPT !.holdout = << xgb_auc, lgbm_auc >>]
             /\ artifact' =
                    [written |-> FALSE,
                     model_type |-> tuned.fits[best_model(xgb_auc, lgbm_auc)].family,
                     model |-> tuned.fits[best_model(xgb_auc, lgbm_auc)],
                     metrics |-> << xgb_auc, lgbm_auc >>[best_model(xgb_auc, lgbm_auc)],
                     feature_cols |-> DOMAIN X_train,
                     fill_values |-> fill_values,
                     xgb_params |-> tuned.best[1],
                     lgbm_params |-> tuned.best[2],
                     accuracy_tuned |-> << >>]
             /\ pc' = "tune"
    /\ UNCHANGED << program, has_year, year, y, base_models, fitted, folds, fold_mode,
                    fold_id, model_pos, oof_preds, writes, last_pred, meta_model,
                    meta_order, val_matrix, cv, data_vars, study, disk,
                    first_gen, rng_draws >>

\* evaluate_on_holdout of the two accuracy-tuned models and
\* artifact["accuracy_tuned"] = {...}
main_evaluate_secondary ==
    /\ program = "main" /\ pc = "holdout" /\ tuned.k = 4
    /\ artifact' = [artifact EXCEPT !.accuracy_tuned = << tuned.best[3], tuned.best[4] >>]
    /\ pc' = "package"
    /\ UNCHANGED << program, has_year, year, y, base_models, fitted, folds, fold_mode,
                    fold_id, model_pos, oof_preds, writes, last_pred, meta_model,
                    meta_order, val_matrix, cv, data_vars, search_vars, disk,
                    first_gen, rng_draws >>

\* with open(output_path, "wb") as f: pickle.dump(artifact, f)
main_save_artifact ==
    /\ program = "main" /\ pc = "package"
    /\ artifact' = [artifact EXCEPT !.written = TRUE]
    /\ \E prior \in BOOLEAN : disk' = open_wb(prior)
    /\ pc' = "done"
    /\ UNCHANGED << program, has_year, year, y, base_models, fitted, folds, fold_mode,
                    fold_id, model_pos, oof_preds, writes, last_pred, meta_model,
                    meta_order, val_matrix, cv, data_vars, search_vars,
                    first_gen, rng_draws >>

\* both scripts from start to end, main with its studies
NextRuns ==
    \/ Next
    \/ create_study
    \/ \E params \in Configs : study_ask(params)
    \/ study_tell
    \/ tune_return
    \/ main_fit_models
    \/ main_evaluate_primary
    \/ main_evaluate_secondary
    \/ main_save_artifact

SpecRuns == InitRuns /\ [][NextRuns]_vars

Raised == pc \in {"raised_split", "raised_oof_fit", "raised_oof_auc", "raised_meta_fit",
                  "raised_full_fit", "raised_holdout_auc", "raised_cv_fit",
                  "raised_cv_auc"}

\* ================================================================ claims
\* the distinct non-missing years of the history table, and the 0-based
\* position of a year among them in ascending order
DistinctYears == {year[i] : i \in Rows} \ {NA}
YearRank(yr) == Cardinality({d \in DistinctYears : d < yr})
TimeEligible == has_year /\ Cardinality(DistinctYears) >= 5
AtOrBeyondThreshold(i) == year[i] # NA /\ YearRank(year[i]) >= 3
InFirstThree(i) == year[i] # NA /\ YearRank(year[i]) < 3
ValCount(i) == Cardinality({f \in DOMAIN folds : i \in folds[f].val})
PastFoldGeneration == pc \notin {"load", "build", "oof_folds", "cv_folds"}

\* C1 (no leakage): in every fold emitted in time-based mode, every validate
\* row has a year strictly greater than the year of every train row.
C1_NoLeakage ==
    fold_mode = "time" =>
        \A f \in DOMAIN folds :
            \A v \in folds[f].val, t \in folds[f].train :
                year[v] # NA /\ year[t] # NA /\ year[v] > year[t]

C1_Witness ==
    /\ fold_mode = "time" /\ program = "stacked"
    /\ Len(folds) >= 2
    /\ \E f \in DOMAIN folds :
        Cardinality(folds[f].val) >= 2 /\ Cardinality(folds[f].train) >= 4
    /\ \E i \in Rows : year[i] = NA

\* C2 (full coverage, single assignment): in time-based mode every row whose
\* year is the 4th smallest distinct year or later is in exactly one fold's
\* validate set, and every row of the first three distinct years is in none.
C2_Coverage ==
    fold_mode = "time" =>
        \A i \in Rows :
            /\ AtOrBeyondThreshold(i) => ValCount(i) = 1
            /\ InFirstThree(i) => ValCount(i) = 0

C2_Witness ==
    /\ fold_mode = "time" /\ program = "tuned"
    /\ \E i, j \in Rows :
        /\ i # j /\ year[i] = year[j] /\ ValCount(i) = 1 /\ ValCount(j) = 1
    /\ \E i, j \in Rows :
        /\ i # j /\ year[i] = year[j] /\ InFirstThree(i) /\ ValCount(i) = 0

\* C3: in time-based mode there is exactly one fold per distinct year from the
\* 4th smallest on, in ascending year order; its validate rows are all rows
\* of that year, its train rows all rows of a strictly smaller year; k
\* distinct years give k - 3 folds.
C3_ExactFolds ==
    fold_mode = "time" =>
        /\ Len(folds) = Cardinality(DistinctYears) - 3
        /\ \A j \in DOMAIN folds :
            LET fy == CHOOSE d \in DistinctYears : YearRank(d) = j + 2 IN
            /\ folds[j].val = {i \in Rows : year[i] = fy}
            /\ folds[j].train = {i \in Rows : year[i] # NA /\ year[i] < fy}
            /\ program = "stacked" => folds[j].year = fy

C3_Witness ==
    /\ fold_mode = "time"
    /\ Cardinality(DistinctYears) >= 5
    /\ Len(folds) = Cardinality(DistinctYears) - 3
    /\ \E i, j \in Rows : i # j /\ year[i] = year[j] /\ YearRank(year[i]) = 0
    /\ \E j \in DOMAIN folds : Cardinality(folds[j].val) >= 2

C5_FitPredictDisjoint ==
    /\ \A n \in Names : last_pred[n] \cap fitted[n].rows = {}
    /\ cv.pred \cap cv.model.rows = {}
    /\ \A f \in DOMAIN folds : folds[f].train \cap folds[f].val = {}

C5_Witness ==
    /\ program = "stacked" /\ fold_mode = "stratified" /\ fold_id >= 2
    /\ \A n \in Names : last_pred[n] # {} /\ fitted[n].kind = "fold"

\* C6: each (row, learner) cell of the out-of-fold matrix is assigned at most
\* once during a pass, in time-based and in stratified mode; no fold
\* overwrites a cell an earlier fold wrote.
C6_CellWrittenOnce ==
    \A n \in Names : \A i \in Rows : writes[n][i] <= 1

C6_Witness ==
    /\ program = "stacked" /\ pc = "meta" /\ fold_mode = "stratified"
    /\ \A n \in Names : \A i \in Rows : writes[n][i] = 1 /\ oof_preds[n][i] # 0

OofFinished ==
    /\ program = "stacked"
    /\ pc \in {"meta", "raised_meta_fit", "fit_full", "raised_full_fit", "evaluate",
               "raised_holdout_auc", "stacked_eval", "package", "done"}

\* C7: once the out-of-fold pass has finished in time-based mode there are
\* k - 3 folds, and for every learner the cell of a row is filled, by exactly
\* one write, if and only if the row's year is the 4th smallest distinct year
\* or later.
C7_FilledIffBeyondThreshold ==
    OofFinished /\ fold_mode = "time" =>
        /\ Len(folds) = Cardinality(DistinctYears) - 3
        /\ \A n \in Names : \A i \in Rows :
            /\ oof_preds[n][i] # 0 <=> AtOrBeyondThreshold(i)
            /\ writes[n][i] = (IF AtOrBeyondThreshold(i) THEN 1 ELSE 0)

C7_Witness ==
    /\ OofFinished /\ fold_mode = "time" /\ pc = "meta"
    /\ \E i \in Rows : year[i] = NA /\ \A n \in Names : oof_preds[n][i] = 0
    /\ \E i \in Rows : InFirstThree(i) /\ \A n \in Names : oof_preds[n][i] = 0
    /\ \E i \in Rows : YearRank(year[i]) = 3 /\ \A n \in Names : oof_preds[n][i] # 0

\* C8: the meta-learner is fitted on exactly the rows whose cell is filled for
\* every base learner, which are the rows some fold validated; a row with an
\* unset cell is not among its training rows.
C8_MetaRows ==
    meta_model.fitted =>
        /\ meta_model.rows = {i \in Rows : \A n \in Names : oof_preds[n][i] # 0}
        /\ \A i \in Rows : ValCount(i) = 0 => i \notin meta_model.rows
        /\ \A i \in Rows : (\E n \in Names : writes[n][i] = 0) => i \notin meta_model.rows

C8_Witness ==
    /\ meta_model.fitted /\ fold_mode = "time"
    /\ \E i \in Rows : year[i] = NA /\ i \notin meta_model.rows
    /\ \E i \in Rows : InFirstThree(i) /\ i \notin meta_model.rows
    /\ \E i \in Rows : i \in meta_model.rows

HoldoutStarted ==
    /\ program = "stacked"
    /\ pc \in {"evaluate", "raised_holdout_auc", "stacked_eval", "package", "done"}

\* C9: when the stacked holdout input is built and when the artifact is
\* written, every base learner's most recent fit was on the whole history
\* table; the refit comes after the last out-of-fold fit and before any
\* holdout prediction.
C9_FullHistoryRefit ==
    /\ HoldoutStarted =>
            \A n \in Names : fitted[n].kind = "full" /\ fitted[n].rows = Rows
    /\ val_matrix.built =>
            \A n \in Names : val_matrix.fits[n].kind = "full" /\ val_matrix.fits[n].rows = Rows
    /\ artifact.written =>
            \A n \in Names :
                artifact.base_models[n].kind = "full" /\ artifact.base_models[n].rows = Rows

C9_Witness ==
    /\ artifact.written /\ val_matrix.built /\ fold_mode = "time"
    /\ \A f \in DOMAIN folds : folds[f].train # Rows

\* C10: the column order the meta-learner is fitted on is the learner names in
\* ascending order, and the stacked holdout input and the artifact's
\* meta_order use that same order, not the dictionary's insertion order.
C10_ColumnOrder ==
    /\ meta_model.fitted => meta_model.order = << "lgbm", "lr", "xgb" >>
    /\ meta_model.fitted => meta_order = meta_model.order
    /\ val_matrix.built => val_matrix.order = meta_model.order
    /\ artifact.written =>
            artifact.meta_order = meta_model.order /\ artifact.meta_model = meta_model

C10_Witness ==
    /\ artifact.written /\ val_matrix.built
    /\ base_models # artifact.meta_order

\* C11 (as claimed): get_oof_predictions fits a fresh instance of each
\* learner for every fold: a learner object that a fold fits has not been
\* fitted before, in no earlier fold.
C11_FreshInstancePerFold ==
    [][\A n \in Names :
          (fitted'[n] # fitted[n] /\ fitted'[n].kind = "fold") => fitted[n].kind = "unfit"]_vars

\* m is the median of the present cells of col, said without sorting: a cell
\* of col with fewer than half of the cells on either side, or the mean of
\* the two cells next to the middle when half of them lie on either side
CountAbove(col, m) == Cardinality({i \in DOMAIN col : col[i] # NA /\ col[i] > m})
IsMedian(col, m) ==
    LET n == CountPresent(col)
        present == {col[i] : i \in {j \in DOMAIN col : col[j] # NA}}
    IN IF n = 0 THEN m = NA
       ELSE \/ /\ m \in present
               /\ 2 * CountBelow(col, m) < n
               /\ 2 * CountAbove(col, m) < n
            \/ /\ 2 * CountBelow(col, m) = n
               /\ 2 * CountAbove(col, m) = n
               /\ \E lo \in present, hi \in present :
                    /\ lo < m /\ m < hi /\ 2 * m = lo + hi
                    /\ ~(\E v \in present : lo < v /\ v < hi)

Selected == pc # "load"

\* C12: for each selected feature column the fill value is the median of the
\* column in the history table only; it replaces every missing cell of the
\* column in both tables, stays the same for the rest of the run and is the
\* value the artifact stores in fill_values.
C12_FillValues ==
    Selected =>
        /\ DOMAIN fill_values = FeatureCols
        /\ \A c \in FeatureCols :
            /\ IsMedian(train_df[c], fill_values[c])
            /\ \A i \in DOMAIN train_df[c] :
                  X_train[c][i] = IF train_df[c][i] = NA THEN fill_values[c]
                                  ELSE train_df[c][i]
            /\ \A i \in DOMAIN val_df[c] :
                  X_val[c][i] = IF val_df[c][i] = NA THEN fill_values[c]
                                ELSE val_df[c][i]
            /\ artifact # NoArtifact => artifact.fill_values[c] = fill_values[c]

\* an artifact is on disk whose fill value, the mean of the two middle cells
\* of the history column, has filled missing cells of both tables
C12_Witness ==
    /\ artifact.written
    /\ \E c \in FeatureCols :
        /\ artifact.fill_values[c] = 3
        /\ \E i \in DOMAIN train_df[c] : train_df[c][i] = NA /\ X_train[c][i] = 3
        /\ \E i \in DOMAIN val_df[c] : val_df[c][i] = NA /\ X_val[c][i] = 3

\* the families main can package when it evaluates the two AUC-tuned models:
\* the holdout table decides the two AUCs, everything else is in the state
Packageable ==
    {family \in {"xgb", "lgbm"} :
        ENABLED (main_evaluate_primary /\ pc' = "tune" /\ artifact'.model_type = family)}

\* C13 (as claimed): the future table is used for no fitted parameter: runs
\* that differ only in the holdout table package the same fitted model, so
\* where the holdout table is evaluated one model only can come to be packaged.
C13_FutureNeverSelects ==
    (program = "main" /\ pc = "holdout" /\ tuned.k = 2) => Cardinality(Packageable) <= 1

\* the value of the best trial the study holds, 0 before the first trial
Incumbent(st) == IF st.active /\ st.best # 0 THEN st.trials[st.best].value ELSE 0

\* C14: after its n_trials trials tune_xgb / tune_lgbm returns the parameters
\* of a trial that was evaluated and whose score is the greatest of all
\* completed trials, and while the study runs the value of its best trial
\* never decreases.
C14_BestOfCompletedTrials ==
    [][/\ (program = "main" /\ pc = "best" /\ pc' # "best") =>
            /\ Len(study.trials) = NTrials
            /\ Len(tuned'.best) = Len(tuned.best) + 1
            /\ \E t \in DOMAIN study.trials :
                /\ tuned'.best[Len(tuned'.best)] = study.trials[t].params
                /\ \A u \in DOMAIN study.trials :
                      study.trials[u].value <= study.trials[t].value
       /\ (study.active /\ study'.active) => Incumbent(study') >= Incumbent(study)]_vars

\* a study has finished whose last trial scored below an earlier one, and
\* the earlier one's parameters are about to be returned
C14_Witness ==
    /\ program = "main" /\ pc = "best"
    /\ study.trials[1].value > study.trials[Len(study.trials)].value
    /\ study.trials[1].params # study.trials[Len(study.trials)].params
    /\ study.best = 1

\* C15 (as claimed): a trial whose fit or scoring throws is scored worst and
\* the search goes on, so no tuning run is ever stopped inside a study by an
\* exception of cv_score_auc / cv_score_accuracy.
C15_TrialFailureRecovered ==
    (program = "main" /\ study.active) => pc \notin {"raised_cv_fit", "raised_cv_auc"}

\* the parameter dicts the sampler can hand to the trial about to start
Proposable == {params \in Configs : ENABLED study_ask(params)}

\* C16 (as claimed): with the same data, seed and trial budget two tuning
\* runs propose the same sequence of configurations: where a trial starts,
\* the data and the trials so far being what they are, one parameter dict
\* only can be proposed.
C16_TunerDeterministic ==
    (program = "main" /\ pc = "ask") => Cardinality(Proposable) = 1

Phase ==
    CASE pc \in {"load", "build"} -> "LOADING"
      [] pc = "oof_folds" -> "FOLD_GENERATION"
      [] pc = "cv_folds" -> IF program = "main" THEN "TUNING" ELSE "FOLD_GENERATION"
      [] pc \in {"oof_loop", "meta", "fit_full"} -> "STACKING"
      [] pc \in {"tune", "ask", "cv_loop", "cv_mean", "tell", "best", "fit_tuned"} -> "TUNING"
      [] pc \in {"evaluate", "stacked_eval", "holdout"} -> "HOLDOUT_EVAL"
      [] pc = "package" -> "PACKAGING"
      [] pc = "done" -> "PACKAGED"
      [] OTHER -> "FAILED"

PhaseRank(ph) ==
    CASE ph = "LOADING" -> 1
      [] ph = "FOLD_GENERATION" -> 2
      [] ph \in {"STACKING", "TUNING"} -> 3
      [] ph = "HOLDOUT_EVAL" -> 4
      [] ph = "PACKAGING" -> 5
      [] ph = "PACKAGED" -> 6
      [] OTHER -> 7

\* the two searches of main: the AUC search and its evaluation, then the
\* accuracy search and its evaluation
SecondSearch ==
    /\ program = "main"
    /\ \/ tuned.k > 2
       \/ tuned.k = 2 /\ pc = "tune"

\* position of a run in its own sequence of phases
Stage ==
    IF Phase \in {"PACKAGING", "PACKAGED", "FAILED"} THEN PhaseRank(Phase) + 2
    ELSE IF SecondSearch THEN PhaseRank(Phase) + 2
    ELSE PhaseRank(Phase)

\* C18 (as claimed): a stacking run and a tuning run go through LOADING,
\* FOLD_GENERATION, STACKING or TUNING, HOLDOUT_EVAL, PACKAGED in this order:
\* no step goes back to an earlier phase, so once a holdout evaluation has
\* started no tuning or fitting step follows.
C18_PhaseOrder ==
    [][(program \in {"stacked", "main"}) => PhaseRank(Phase') >= PhaseRank(Phase)]_vars

\* C18 (amended): the stacking run goes through LOADING, FOLD_GENERATION,
\* STACKING, HOLDOUT_EVAL, PACKAGED; the tuning run through LOADING, TUNING
\* (AUC objective), HOLDOUT_EVAL, a second TUNING (accuracy objective) and a
\* second HOLDOUT_EVAL, PACKAGED.  A step stays in its phase, enters the
\* next one or fails; the artifact is written only from a finished holdout
\* evaluation; nothing happens after PACKAGED or after a failure.
C18_PhaseOrderTwoSearches ==
    [][(program \in {"stacked", "main"}) =>
        /\ Phase \in {"PACKAGED", "FAILED"} => vars' = vars
        /\ Phase' = "FAILED" \/ Stage' = Stage \/ Stage' = Stage + 1
              \/ (Phase = "LOADING" /\ Phase' = "TUNING")
              \/ (Phase = "HOLDOUT_EVAL" /\ Phase' = "PACKAGING")
        /\ Phase' = "PACKAGING" => Phase \in {"HOLDOUT_EVAL", "PACKAGING"}
        /\ Phase' = "PACKAGED" => Phase \in {"PACKAGING", "PACKAGED"}
        /\ (Phase' = "TUNING" /\ Phase = "HOLDOUT_EVAL") => (program = "main" /\ tuned.k = 2)
      ]_vars

\* main has written its artifact after both searches and both evaluations
C18_Witness ==
    /\ program = "main" /\ pc = "done"
    /\ artifact.written /\ Len(tuned.best) = 4
    /\ artifact.accuracy_tuned # << >>

C20_NoOverwrite ==
    disk.prior => disk.content = "prior"

\* no fold of the sequence has an empty train set or an empty validate set
NoEmptySet(fs) == \A f \in DOMAIN fs : fs[f].train # {} /\ fs[f].val # {}

\* C21: time_folds never emits a fold whose train-index set or whose
\* validate-index set is empty, in either script: neither in the folds a run
\* works on nor in what the two functions return for the table of the run
\* (which no step changes, so the initial state decides it).
C21_NoEmptyFold ==
    /\ fold_mode = "time" => NoEmptySet(folds)
    /\ pc = "load" => NoEmptySet(V4StackedTrainer_time_folds.folds)
    /\ pc = "load" => NoEmptySet(time_folds.folds)

\* the stacking run works on time folds, more than one of them
C21_Witness ==
    /\ program = "stacked" /\ pc = "oof_loop"
    /\ fold_mode = "time" /\ Len(folds) >= 2

\* C22: when no usable feature column remains the loader fails with a
\* SchemaError, before any fold is generated and before any learner is fitted.
C22_SchemaErrorBeforeFolds ==
    FeatureCols = {} =>
        /\ pc \in {"load", "raised_schema"}
        /\ first_gen.none
        /\ cv.instances = 0

\* C24: an error raised while one fold is fitted or scored is caught and
\* recorded; it does not abort get_oof_predictions or the cv_score call, which
\* go on with the remaining folds.
C24_PerFoldErrorsCaught ==
    program \in {"stacked", "tuned"} =>
        pc \notin {"raised_oof_fit", "raised_oof_auc", "raised_cv_fit", "raised_cv_auc"}

\* the (train, validate) pairs of the stacking run's triples
Pairs(fs) == [k \in DOMAIN fs |-> [train |-> fs[k].train, val |-> fs[k].val]]

\* C25: the module-level time_folds of the tuning script and
\* V4StackedTrainer.time_folds return None in the same cases and otherwise the
\* same sequence of (train, validate) pairs; and the folds either script works
\* on, time folds or the seeded 5-fold stratified split, are the folds the
\* other script makes of the same table.
C25_SameFolds ==
    /\ pc = "load" => V4StackedTrainer_time_folds.none = time_folds.none
    /\ pc = "load" => Pairs(V4StackedTrainer_time_folds.folds) = time_folds.folds
    /\ (program = "stacked" /\ fold_mode = "time") => Pairs(folds) = time_folds.folds
    /\ (program = "tuned" /\ fold_mode = "time") =>
            folds = Pairs(V4StackedTrainer_time_folds.folds)
    /\ (program = "stacked" /\ fold_mode = "stratified") =>
            (time_folds.none /\ Pairs(folds) = tuned_stratified_folds)
    /\ (program = "tuned" /\ fold_mode = "stratified") =>
            (V4StackedTrainer_time_folds.none /\ folds = Pairs(V4_stratified_folds))

\* the cv_score call works on two or more time folds of a table that has a row
\* without a year
C25_Witness ==
    /\ program = "tuned" /\ pc = "cv_loop"
    /\ fold_mode = "time" /\ Len(folds) >= 2
    /\ \E i \in Rows : year[i] = NA

\* C26: within one study every trial is scored on the same folds: each
\* cv_score call regenerates them from the table, which no step of the study
\* modifies, and gets the folds of the trial before; and every fold of a trial
\* is fitted on a model newly built from the parameters of that trial, so a
\* call that ends has built as many models as it has folds.
C26_SameFoldsFreshModel ==
    [][(program = "main" /\ study.active) =>
        /\ X_train' = X_train /\ y' = y /\ year' = year
        /\ (pc = "cv_folds" /\ pc' \in {"cv_loop", "cv_mean"} /\ study.trials # << >>) =>
                (folds' = folds /\ fold_mode' = fold_mode)
        /\ (pc = "cv_folds" /\ pc' \in {"cv_loop", "cv_mean"}) =>
                (cv'.instances = 0 /\ cv'.params = study.params)
        /\ (pc = "cv_loop" /\ pc' \in {"cv_loop", "cv_mean"}) =>
                /\ cv'.instances = cv.instances + 1
                /\ cv'.model = FoldFit(folds[fold_id].train)
                /\ cv'.params = study.params
        /\ (pc = "cv_loop" /\ pc' = "cv_mean") => cv'.instances = Len(folds)]_vars

\* a trial after the first of its study has been scored on all of its folds
C26_Witness ==
    /\ program = "main" /\ pc = "cv_mean"
    /\ study.active /\ Len(study.trials) >= 1
    /\ Len(folds) >= 2 /\ cv.instances = Len(folds)
    /\ cv.params = study.params

\* the train set of each fold after the first is the train set of the fold
\* before it together with that fold's validate set
Expanding(fs) ==
    \A k \in 1..(Len(fs) - 1) : fs[k + 1].train = fs[k].train \cup fs[k].val

\* C27: consecutive time folds form an expanding window, in both scripts.
C27_ExpandingWindow ==
    /\ fold_mode = "time" => Expanding(folds)
    /\ pc = "load" => Expanding(V4StackedTrainer_time_folds.folds)
    /\ pc = "load" => Expanding(time_folds.folds)

\* the stacking run has two time folds or more, the second wider than the first
C27_Witness ==
    /\ program = "stacked" /\ pc = "oof_loop" /\ fold_mode = "time"
    /\ Len(folds) >= 2
    /\ folds[1].val # {} /\ folds[2].train = folds[1].train \cup folds[1].val

\* the indices of a fold are positions of X and y, and the rows at these
\* positions are the rows the fold was made of: the validate set is the rows
\* of one year, the train set the rows of the years before it
PositionsOfFold(fold) ==
    /\ fold.train \cup fold.val \subseteq 0..(NRows - 1)
    /\ \E v \in DistinctYears :
        /\ fold.val = {p \in 0..(NRows - 1) : year[p] = v}
        /\ fold.train = {p \in 0..(NRows - 1) : year[p] # NA /\ year[p] < v}

PositionsOfFolds(fs) == \A f \in DOMAIN fs : PositionsOfFold(fs[f])

\* C28: the index labels time_folds emits, used as positions into X and y,
\* are valid positions of [0, n), and X[i], y[i] are the row whose year placed
\* i in the fold; the learners are fitted on such positions.
C28_IndicesArePositions ==
    /\ fold_mode = "time" => PositionsOfFolds(folds)
    /\ pc = "load" => PositionsOfFolds(V4StackedTrainer_time_folds.folds)
    /\ pc = "load" => PositionsOfFolds(time_folds.folds)
    /\ cv.model.rows \subseteq 0..(NRows - 1)
    /\ \A n \in Names : fitted[n].rows \subseteq 0..(NRows - 1)

\* a model of the cv_score call has been fitted on the positions of a time fold
C28_Witness ==
    /\ program = "tuned" /\ pc = "cv_loop" /\ fold_mode = "time"
    /\ cv.instances >= 1 /\ cv.model.rows # {}
    /\ \E f \in DOMAIN folds : cv.model.rows = folds[f].train /\ PositionsOfFold(folds[f])

\* C29: in time mode a row whose year is missing does not count toward the
\* threshold of five years, is in no fold's train or validate set, keeps every
\* cell of the out-of-fold matrix unset, is left out of the meta-learner's fit,
\* and is among the rows of the final fit on the full history.
C29_MissingYearRows ==
    fold_mode = "time" =>
        /\ Cardinality(DistinctYears) >= MinYears
        /\ \A i \in {r \in Rows : year[r] = NA} :
            /\ \A f \in DOMAIN folds : i \notin folds[f].train \cup folds[f].val
            /\ \A n \in DOMAIN oof_preds : oof_preds[n][i] = 0
            /\ meta_model.fitted => i \notin meta_model.rows
            /\ \A n \in Names : fitted[n].kind = "fold" => i \notin fitted[n].rows
            /\ \A n \in Names : fitted[n].kind = "full" => i \in fitted[n].rows

\* the stacking run has refitted its learners on a table with a row without a
\* year, after time folds and the fit of the meta-learner
C29_Witness ==
    /\ program = "stacked" /\ fold_mode = "time" /\ pc = "done"
    /\ meta_model.fitted /\ meta_model.rows # {}
    /\ \E i \in Rows :
        /\ year[i] = NA
        /\ i \notin meta_model.rows
        /\ \A n \in Names : fitted[n].kind = "full" /\ i \in fitted[n].rows

\* the artifact main has built holds the model of the given place among the
\* two AUC-tuned fits, with its name and its holdout AUC
PrimaryIs(place) ==
    /\ artifact.model = tuned.fits[place]
    /\ artifact.model_type = StudyFamily(place)
    /\ artifact.model.family = StudyFamily(place)
    /\ artifact.model.params = tuned.best[place]
    /\ artifact.metrics = tuned.holdout[place]

\* C30: the primary model of the tuning run is the AUC-tuned XGBoost model
\* when its holdout AUC is at least LightGBM's, the AUC-tuned LightGBM model
\* otherwise; model_type and metrics are those of that model; and the accuracy
\* searches that follow change none of model, model_type, metrics, xgb_params
\* and lgbm_params: they only add accuracy_tuned.
C30_PrimaryModel ==
    (program = "main" /\ artifact # NoArtifact) =>
        /\ IF tuned.holdout[1] >= tuned.holdout[2] THEN PrimaryIs(1) ELSE PrimaryIs(2)
        /\ artifact.xgb_params = tuned.best[1]
        /\ artifact.lgbm_params = tuned.best[2]
        /\ artifact.accuracy_tuned =
                IF pc \in {"package", "done"} THEN << tuned.best[3], tuned.best[4] >>
                ELSE << >>

\* the two holdout AUCs tie, the accuracy searches chose other parameters than
\* the AUC searches, and the packaged model is still the AUC-tuned XGBoost
C30_Witness ==
    /\ program = "main" /\ pc = "done"
    /\ tuned.holdout[1] = tuned.holdout[2]
    /\ tuned.best[3] # tuned.best[1]
    /\ PrimaryIs(1) /\ artifact.accuracy_tuned # << >>

====
